---- MODULE Spec2Model ----
(***************************************************************************)
(* Extension catalog engine of vscoffline's gallery server                 *)
(* (src/vscoffline/server.py, class VSCGallery, and the helpers of         *)
(* src/vscoffline/vsc.py it uses).                                         *)
(*                                                                         *)
(* Two threads run update_state: the scheduler thread started by           *)
(* VSCGallery.__init__ (update_state_loop) and the watchdog observer       *)
(* thread (ArtifactChangedHandler.on_modified).  Request handlers run      *)
(* on_post concurrently with both.  The storage tree and the clock belong  *)
(* to the environment.                                                     *)
(***************************************************************************)
EXTENDS Integers, Sequences, FiniteSets, TLC

\* ------------------------------------------------------------------------
\* Bounds of the model
\* ------------------------------------------------------------------------
NumDirs == 2       \* sub-directories the storage tree can hold
MaxClock == 3      \* largest timestamp the clock reaches
MaxEnv == 1        \* changes the environment makes to the storage tree
MaxCriteria == 3   \* criteria a request carries
MaxSorted == 4     \* extensions of the snapshots that are sorted
Interval == 1      \* self.interval, in ticks of the clock

\* ------------------------------------------------------------------------
\* Program constants
\* ------------------------------------------------------------------------
batch_size == 100
Inf == 1000000     \* float('inf')

Dirs == 1..NumDirs
Threads == {"loop", "watch"}

VARIABLES
    extensions,         \* self.extensions: identity -> record
    loaded,             \* self.loaded (Event)
    indexing,           \* self.indexing (Event)
    indexing_progress,  \* self.indexing_progress
    pc,                 \* position of each thread running update_state
    loadres,            \* outcome of load_cache in the current update_state
    extension_dirs,     \* local of update_state: eligible directories
    done_dirs,          \* futures already yielded by as_completed
    new_extensions,     \* local of update_state
    batch_extensions,   \* local of update_state
    cache_data,         \* local of save_cache
    error,              \* exception that left update_state, per thread
    tree,               \* storage tree: directory -> content and mtimes
    rootOk,             \* whether the storage root can be enumerated
    cache,              \* file at self.cache_file
    tmp,                \* file at self.cache_file + '.tmp'
    now,                \* clock (mtime source)
    envLeft,            \* environment changes still allowed
    qpc,                \* position of the request handler (on_post)
    observed,           \* local 'extensions' of _apply_criteria
    criteria,           \* the criteria of the request on_post is serving
    result,             \* what _apply_criteria returned to on_post
    sorting,            \* sortBy / sortOrder of the request being served
    response,           \* resp of the last request answered
    answered,           \* history: the last query answered with a body
    last_refresh_time,  \* self.last_refresh_time
    next_refresh_time,  \* self.next_refresh_time
    wake,               \* when the scheduler's time.sleep ends
    status_cache,       \* VSCStatus._cache: the status it holds, if any
    reported,           \* the last status response sent
    published,          \* history: last snapshot assigned wholesale
    failed,             \* history: directories whose load failed in the
                        \* rebuild that last assigned its snapshot
    unchanged_since_scan \* history: tree untouched since the thread's scan

vars == <<extensions, loaded, indexing, indexing_progress, pc, loadres,
          extension_dirs, done_dirs, new_extensions, batch_extensions,
          cache_data, error, tree, rootOk, cache, tmp, now, envLeft,
          qpc, observed, criteria, result, sorting, response, answered,
          last_refresh_time,
          next_refresh_time, wake, status_cache, reported, published,
          failed, unchanged_since_scan>>

\* ------------------------------------------------------------------------
\* Values
\* ------------------------------------------------------------------------
\* Python's None / [] / {}: every falsy result is the empty function.
None == <<>>

\* A JSON object is a record holding exactly the keys that are present.
Has(obj, key) == key \in DOMAIN obj

\* A version string is the sequence of its dot-separated numbers
\* ("1.0" is <<1, 0>>); the empty string is <<>>.
StrEmpty == <<>>

\* ------------------------------------------------------------------------
\* packaging.version.Version
\* ------------------------------------------------------------------------
\* a parser that accepts every string
VersionParses_any(s) == TRUE

\* Version(s) raises InvalidVersion when s has no release segment.
VersionParses(s) == s # StrEmpty

RECURSIVE StripZeros(_)
\* Version._key drops the trailing zeros of the release
StripZeros(s) ==
    IF s # <<>> /\ s[Len(s)] = 0
    THEN StripZeros(SubSeq(s, 1, Len(s) - 1))
    ELSE s

Version(s) == StripZeros(s)

RECURSIVE TupleLess(_, _)
\* Python tuple comparison a < b
TupleLess(a, b) ==
    IF a = <<>> THEN b # <<>>
    ELSE IF b = <<>> THEN FALSE
    ELSE IF a[1] # b[1] THEN a[1] < b[1]
    ELSE TupleLess(Tail(a), Tail(b))

VersionLess(s, t) == TupleLess(Version(s), Version(t))
VersionEq(s, t) == Version(s) = Version(t)

\* ------------------------------------------------------------------------
\* sorted(versions, key=lambda k: Version(k['version']), reverse=True)
\* ------------------------------------------------------------------------
RECURSIVE InsertDesc_unstable(_, _)
\* an insertion that places an entry before the entries equal to it
InsertDesc_unstable(s, x) ==
    IF s = <<>> THEN <<x>>
    ELSE IF ~VersionLess(x.version, s[1].version) THEN <<x>> \o s
    ELSE <<s[1]>> \o InsertDesc_unstable(Tail(s), x)

RECURSIVE InsertDesc(_, _)
\* x goes after every element whose key is >= its own (the sort is stable)
InsertDesc(s, x) ==
    IF s = <<>> THEN <<x>>
    ELSE IF VersionLess(s[1].version, x.version) THEN <<x>> \o s
    ELSE <<s[1]>> \o InsertDesc(Tail(s), x)

RECURSIVE sorted_versions(_)
sorted_versions(s) ==
    IF s = <<>> THEN <<>>
    ELSE InsertDesc(sorted_versions(SubSeq(s, 1, Len(s) - 1)), s[Len(s)])

\* ------------------------------------------------------------------------
\* vsc.Utility.load_json
\* ------------------------------------------------------------------------
\* A file is [exists, json]; json is None when the text is not valid JSON
\* or decodes to a falsy value.
load_json(file) == IF ~file.exists THEN None ELSE file.json

\* ------------------------------------------------------------------------
\* VSCGallery.process_loaded_extension
\* ------------------------------------------------------------------------
\* True when process_loaded_extension raises (KeyError on a missing key).
ProcessRaises(extension) ==
    \/ ~Has(extension, "identity")
    \/ ~Has(extension, "versions")
    \/ \E i \in 1..Len(extension.versions) :
          \/ ~Has(extension.versions[i], "version")
          \/ ~Has(extension.versions[i], "files")
          \/ \E j \in 1..Len(extension.versions[i].files) :
                ~Has(extension.versions[i].files[j], "assetType")

\* f"{base_uri}/{version}" or f"{base_uri}/{version}/{targetPlatform}"
AssetUri(version, extensiondir) ==
    IF Has(version, "targetPlatform")
    THEN [base |-> extensiondir, version |-> version.version,
          targetPlatform |-> version.targetPlatform]
    ELSE [base |-> extensiondir, version |-> version.version]

ProcessVersion(version, extensiondir) ==
    LET asseturi == AssetUri(version, extensiondir)
        files == [j \in 1..Len(version.files) |->
                    ("source" :> [uri |-> asseturi,
                                  assetType |-> version.files[j].assetType])
                    @@ version.files[j]]
    IN  ("assetUri" :> asseturi) @@ ("fallbackAssetUri" :> asseturi)
        @@ ("files" :> files) @@ version

RECURSIVE StatsUpdate(_, _)
\* stats.update({s['statisticName']: s['value'] for s in statistics})
StatsUpdate(stats, statistics) ==
    IF statistics = <<>> THEN stats
    ELSE StatsUpdate((statistics[1].statisticName :> statistics[1].value)
                        @@ stats,
                     Tail(statistics))

DefaultStats == [averagerating |-> 0, install |-> 0, weightedRating |-> 0]

process_loaded_extension(extension, extensiondir) ==
    LET versions == [i \in 1..Len(extension.versions) |->
                        ProcessVersion(extension.versions[i], extensiondir)]
        stats == IF ~Has(extension, "statistics")
                    \/ extension.statistics = <<>>
                 THEN DefaultStats
                 ELSE StatsUpdate(DefaultStats, extension.statistics)
    IN  ("stats" :> stats) @@ ("versions" :> versions) @@ extension

\* ------------------------------------------------------------------------
\* VSCGallery.process_single_extension
\* ------------------------------------------------------------------------
\* A directory is [latest: file, listable, subdirs: Seq of [ext: file]];
\* subdirs is in the order os.scandir yields the version directories.
Raised == [raised |-> TRUE, versions |-> <<>>]
Listed(versions) == [raised |-> FALSE, versions |-> versions]

RECURSIVE OtherVersions(_, _, _, _)
\* The scandir loop: the versions appended to latest['versions'],
\* or Raised when an extension.json makes the loop raise.
OtherVersions(subdirs, latestversion, extensiondir, acc) ==
    IF subdirs = <<>> THEN Listed(acc)
    ELSE LET vers == load_json(subdirs[1].ext)
             rest == Tail(subdirs)
         IN  IF vers = None
             THEN OtherVersions(rest, latestversion, extensiondir, acc)
             ELSE IF ProcessRaises(vers) THEN Raised
             ELSE LET p == process_loaded_extension(vers, extensiondir)
                  IN  IF p.versions = <<>> THEN Raised   \* IndexError
                      ELSE IF latestversion = p.versions[1]
                      THEN OtherVersions(rest, latestversion,
                                         extensiondir, acc)
                      ELSE OtherVersions(rest, latestversion, extensiondir,
                                         Append(acc, p.versions[1]))

\* latest['versions'] as it is right before the sort
MergedVersions(dir, extensiondir) ==
    LET latest == process_loaded_extension(load_json(dir.latest),
                                           extensiondir)
    IN  IF ~dir.listable THEN Listed(latest.versions)
        ELSE LET others == OtherVersions(dir.subdirs, latest.versions[1],
                                         extensiondir, <<>>)
             IN  IF others.raised THEN Raised
                 ELSE Listed(latest.versions \o others.versions)

\* a loader that answers an empty record where lines 210-215 answer None
process_single_extension_stub(dir, extensiondir) ==
    LET latest == load_json(dir.latest)
    IN  IF \/ latest = None
           \/ ~Has(latest, "identity") \/ ~Has(latest, "versions")
           \/ latest.versions = <<>>
        THEN [identity |-> extensiondir, versions |-> <<>>,
              stats |-> DefaultStats]
        ELSE IF ProcessRaises(latest) THEN None
        ELSE LET merged == MergedVersions(dir, extensiondir)
             IN  IF merged.raised THEN None
                 ELSE IF \E i \in 1..Len(merged.versions) :
                            ~VersionParses(merged.versions[i].version)
                 THEN None
                 ELSE ("versions" :> sorted_versions(merged.versions))
                      @@ process_loaded_extension(latest, extensiondir)

process_single_extension(dir, extensiondir) ==
    LET latest == load_json(dir.latest)
    IN  IF latest = None THEN None
        ELSE IF ~Has(latest, "identity") \/ ~Has(latest, "versions")
        THEN None
        ELSE IF latest.versions = <<>> THEN None
        ELSE IF ProcessRaises(latest) THEN None
        ELSE LET merged == MergedVersions(dir, extensiondir)
             IN  IF merged.raised THEN None
                 ELSE IF \E i \in 1..Len(merged.versions) :
                            ~VersionParses(merged.versions[i].version)
                 THEN None
                 ELSE ("versions" :> sorted_versions(merged.versions))
                      @@ process_loaded_extension(latest, extensiondir)


\* ------------------------------------------------------------------------
\* json.dump / json.load and the files of the cache
\* ------------------------------------------------------------------------
\* A JSON document of an object is the set of its key/value members;
\* a file just truncated holds EmptyText, a damaged one Garbage.
EmptyText == [kind |-> "empty"]
Garbage == [kind |-> "garbage"]

\* a serialization that keeps only the first version of each record
JsonDump_lossy(data) ==
    [kind |-> "json",
     members |-> {<<k, [data[k] EXCEPT !.versions = <<@[1]>>]>> :
                    k \in DOMAIN data}]

\* json.dump(cache_data, f, separators=(',', ':'))
JsonDump(data) ==
    [kind |-> "json", members |-> {<<k, data[k]>> : k \in DOMAIN data}]

\* json.load(f)
JsonLoads(text) ==
    [k \in {m[1] : m \in text.members} |->
        (CHOOSE m \in text.members : m[1] = k)[2]]

\* A file is [exists, text, mtime, writers, data]: writers are the threads
\* that hold it open for writing (a rename moves the file with them);
\* data is history, the object whose dump the text is.
NoFile == [exists |-> FALSE]
File(text, mtime, writers, data) ==
    [exists |-> TRUE, text |-> text, mtime |-> mtime, writers |-> writers,
     data |-> data]

\* gzip.open + json.load raise on anything but a whole document
Readable(file) == file.exists /\ file.text.kind = "json"

\* ------------------------------------------------------------------------
\* Storage tree
\* ------------------------------------------------------------------------
NoDir == [present |-> FALSE]
JsonFile(json) == [exists |-> TRUE, json |-> json]
NoJson == [exists |-> FALSE]

VersionEntry(v) == [version |-> v, files |-> <<[assetType |-> "VSIXPackage"]>>]

\* Text is a sequence of characters: 1, 2 are "a", "b" and 11, 12 are
\* "A", "B".  The identity d of the model is the string ExtName(d).
ExtName(d) ==
    IF d = 1 THEN <<11, 2>>
    ELSE IF d = 2 THEN <<2>>
    ELSE <<2>> \o [i \in 1..(d - 2) |-> 1]

\* a timestamp text: fraction tells whether it carries the .%f part
Stamp(n, fraction) == [stamp |-> n, fraction |-> fraction]
Statistic(name, value) == [statisticName |-> name, value |-> value]

\* the fields of latest.json the gallery passes on or sorts by: the first
\* extension has a displayName and is recommended, the second has a
\* shortDescription and a publishedDate without fraction, the others have
\* both texts, are not recommended and carry no rating statistics.
\* Installs are 10, 50, 30 and then 10 again.
Meta(d) ==
    IF d = 1
    THEN [extensionId |-> <<1>>, displayName |-> <<12, 1>>,
          recommended |-> TRUE,
          statistics |-> <<Statistic("install", 10),
                           Statistic("averagerating", 4)>>,
          publisher |-> [publisherName |-> <<1>>],
          lastUpdated |-> Stamp(3, TRUE), publishedDate |-> Stamp(1, TRUE)]
    ELSE IF d = 2
    THEN [extensionId |-> <<2>>, shortDescription |-> <<11>>,
          statistics |-> <<Statistic("install", 50),
                           Statistic("averagerating", 4)>>,
          publisher |-> [publisherName |-> <<2>>],
          lastUpdated |-> Stamp(1, TRUE), publishedDate |-> Stamp(2, FALSE)]
    ELSE [extensionId |-> <<1>> \o [i \in 1..(d - 2) |-> 2],
          displayName |-> <<1>>,
          shortDescription |-> <<2>>, recommended |-> FALSE,
          statistics |-> <<Statistic("install", IF d = 3 THEN 30 ELSE 10)>>,
          publisher |-> [publisherName |-> IF d = 3 THEN <<1>> ELSE <<11>>],
          lastUpdated |-> Stamp(3, TRUE), publishedDate |-> Stamp(2, TRUE)]

ExtensionJson(d, vs) ==
    [identity |-> d, versions |-> [i \in 1..Len(vs) |-> VersionEntry(vs[i])]]
    @@ Meta(d)
VersionDir(d, v) == [ext |-> JsonFile(ExtensionJson(d, <<v>>))]

\* latest.json names 2; the version directories are 1, 1.0 and 2
GoodDir(d) ==
    [latest |-> JsonFile(ExtensionJson(d, << <<2>> >>)), listable |-> TRUE,
     subdirs |-> <<VersionDir(d, <<1>>), VersionDir(d, <<1, 0>>),
                   VersionDir(d, <<2>>)>>]
\* the sync process has fetched version 3: latest.json names it, and the
\* version directories are 2, 3 and 2.5
NewerDir(d) ==
    [latest |-> JsonFile(ExtensionJson(d, << <<3>> >>)), listable |-> TRUE,
     subdirs |-> <<VersionDir(d, <<2>>), VersionDir(d, <<3>>),
                   VersionDir(d, <<2, 5>>)>>]
\* a directory without latest.json
NoLatestDir(d) ==
    [latest |-> NoJson, listable |-> TRUE,
     subdirs |-> <<VersionDir(d, <<1>>)>>]
\* a version directory carries an unparseable version string
BadVersionDir(d) ==
    [latest |-> JsonFile(ExtensionJson(d, << <<2>> >>)), listable |-> TRUE,
     subdirs |-> <<VersionDir(d, StrEmpty)>>]

\* latest.json holds the document json; one version directory
LatestDir(d, json) ==
    [latest |-> JsonFile(json), listable |-> TRUE,
     subdirs |-> <<VersionDir(d, <<1>>)>>]
\* latest.json is empty or no JSON, has no identity, has no versions list,
\* has an empty one
BadLatestDirs(d) ==
    {LatestDir(d, None),
     LatestDir(d, [versions |-> <<VersionEntry(<<2>>)>>] @@ Meta(d)),
     LatestDir(d, [identity |-> d] @@ Meta(d)),
     LatestDir(d, ExtensionJson(d, <<>>))}
\* latest.json names 2; between the version directories 1 and 2 stands
\* one whose extension.json is the file ext
OddVersionDir(d, ext) ==
    [latest |-> JsonFile(ExtensionJson(d, << <<2>> >>)), listable |-> TRUE,
     subdirs |-> <<VersionDir(d, <<1>>), [ext |-> ext],
                   VersionDir(d, <<2>>)>>]
\* extension.json is missing, empty or no JSON
EmptyVersionDirs(d) ==
    {OddVersionDir(d, NoJson), OddVersionDir(d, JsonFile(None))}
\* extension.json has no versions list, or an empty one
MalformedVersionDirs(d) ==
    {OddVersionDir(d, JsonFile([identity |-> d] @@ Meta(d))),
     OddVersionDir(d, JsonFile(ExtensionJson(d, <<>>)))}
\* the build of version 2 for another platform, as the marketplace lists
\* a platform-specific extension
PlatformEntry(v, platform) ==
    [version |-> v, targetPlatform |-> platform,
     files |-> <<[assetType |-> "VSIXPackage"]>>]
\* extension.json names the latest version again: for a platform, or
\* written as 2.0
SameVersionDirs(d) ==
    {OddVersionDir(d, JsonFile([identity |-> d,
                                versions |->
                                   <<PlatformEntry(<<2>>, "linux-x64")>>]
                               @@ Meta(d))),
     OddVersionDir(d, JsonFile(ExtensionJson(d, << <<2, 0>> >>)))}

Dir(content, mtime, marker) ==
    [present |-> TRUE, content |-> content, mtime |-> mtime,
     marker |-> marker]

Max(a, b) == IF a >= b THEN a ELSE b

RECURSIVE MaxOver(_, _)
MaxOver(S, f) ==
    IF S = {} THEN 0
    ELSE LET x == CHOOSE y \in S : TRUE
         IN  Max(f[x], MaxOver(S \ {x}, f))

\* ------------------------------------------------------------------------
\* VSCGallery.get_cache_mtime, get_extensions_mtime
\* ------------------------------------------------------------------------
get_cache_mtime == IF cache.exists THEN cache.mtime ELSE 0

\* max(dir mtime, mtime of updated.json when it exists); marker = 0: absent
DirMtime(d) ==
    IF tree[d].present THEN Max(tree[d].mtime, tree[d].marker) ELSE 0

\* a failure to list the tree read as a tree without directories
get_extensions_mtime_zero ==
    IF ~rootOk THEN 0
    ELSE MaxOver(Dirs, [d \in Dirs |-> DirMtime(d)])

\* lines 150-163: float('inf') when the tree cannot be listed or statted
get_extensions_mtime ==
    IF ~rootOk THEN Inf
    ELSE MaxOver(Dirs, [d \in Dirs |-> DirMtime(d)])

\* ------------------------------------------------------------------------
\* VSCGallery.load_cache, the test of line 170
\* ------------------------------------------------------------------------
\* the test with >= in place of >
CacheUsable_notstrict(cache_mtime, extensions_mtime) ==
    cache_mtime >= extensions_mtime /\ cache.exists

CacheUsable(cache_mtime, extensions_mtime) ==
    cache_mtime > extensions_mtime /\ cache.exists

\* ------------------------------------------------------------------------
\* Initial states: VSCGallery.__init__
\* ------------------------------------------------------------------------
Idle == [current |-> 0, total |-> 0, stage |-> "idle"]

\* What a rebuild over the whole tree produces
TreeSnapshot(t) ==
    LET ok == {d \in Dirs : /\ t[d].present
                            /\ process_single_extension(t[d].content, d)
                                    # None}
    IN  [d \in ok |-> process_single_extension(t[d].content, d)]

AllGood == [d \in Dirs |-> Dir(GoodDir(d), 1, 0)]

\* The tree the server starts over: every directory good, or the last one
\* unparseable, without latest.json, or removed.
InitTrees ==
    {AllGood} \cup
    {[AllGood EXCEPT ![NumDirs] = x] :
        x \in {Dir(BadVersionDir(NumDirs), 1, 0),
               Dir(NoLatestDir(NumDirs), 1, 0), NoDir}}

\* The cache an earlier run of the server left when every directory was good
OldCache(mtime) ==
    File(JsonDump(TreeSnapshot(AllGood)), mtime, {}, TreeSnapshot(AllGood))

NoReport == [endpoint |-> "none", status |-> "none"]
\* a request without sortBy and sortOrder; no response sent yet
NoSorting == <<>>
NoResponse == [status |-> 0]

InitGallery ==
    /\ extensions = <<>>
    /\ loaded = FALSE
    /\ indexing = FALSE
    /\ indexing_progress = Idle
    /\ pc = [t \in Threads |-> IF t = "loop" THEN "loop_top" ELSE "idle"]
    /\ loadres = [t \in Threads |-> "none"]
    /\ extension_dirs = [t \in Threads |-> {}]
    /\ done_dirs = [t \in Threads |-> {}]
    /\ new_extensions = [t \in Threads |-> <<>>]
    /\ batch_extensions = [t \in Threads |-> <<>>]
    /\ cache_data = [t \in Threads |-> <<>>]
    /\ error = [t \in Threads |-> "none"]
    /\ rootOk = TRUE
    /\ tmp = NoFile
    /\ now = 2
    /\ envLeft = MaxEnv
    /\ published = <<>>
    /\ failed = {}
    /\ unchanged_since_scan = [t \in Threads |-> FALSE]
    /\ last_refresh_time = 0
    /\ next_refresh_time = 2 + Interval
    /\ wake = 0
    /\ status_cache = "none"
    /\ reported = NoReport

\* no request is being served
InitProgram ==
    /\ InitGallery
    /\ qpc = "idle"
    /\ observed = <<>>
    /\ criteria = <<>>
    /\ result = <<>>
    /\ sorting = NoSorting
    /\ response = NoResponse
    /\ answered = None

\* No cache yet, or one newer than the tree
Init ==
    /\ InitProgram
    /\ tree \in InitTrees
    /\ cache \in {NoFile, OldCache(2)}

\* ------------------------------------------------------------------------
\* Environment: the clock, the sync process writing the storage tree
\* ------------------------------------------------------------------------
gallery == <<extensions, loaded, indexing, indexing_progress>>
locals == <<loadres, extension_dirs, done_dirs, new_extensions,
            batch_extensions, cache_data, error>>
files == <<cache, tmp>>
query == <<qpc, observed, criteria, result, sorting, response, answered>>
timer == <<last_refresh_time, next_refresh_time, wake>>
status == <<status_cache, reported>>

Tick ==
    /\ now < MaxClock
    /\ now' = now + 1
    /\ UNCHANGED <<gallery, pc, locals, tree, rootOk, files, envLeft, query,
                   timer, status, published, failed, unchanged_since_scan>>

EnvFrame ==
    UNCHANGED <<gallery, pc, locals, files, now, query, timer, status,
                published, failed>>

\* the sync process fetches a new version of an extension
SyncWrite(d) ==
    /\ envLeft > 0
    /\ rootOk
    /\ ~(tree[d].present /\ tree[d].content = NewerDir(d))
    /\ tree' = [tree EXCEPT ![d] =
                    Dir(NewerDir(d), now,
                        IF tree[d].present THEN tree[d].marker ELSE 0)]
    /\ envLeft' = envLeft - 1
    /\ unchanged_since_scan' = [t \in Threads |-> FALSE]
    /\ UNCHANGED rootOk
    /\ EnvFrame

\* an extension directory is removed
SyncRemove(d) ==
    /\ envLeft > 0
    /\ rootOk
    /\ tree[d].present
    /\ tree' = [tree EXCEPT ![d] = NoDir]
    /\ envLeft' = envLeft - 1
    /\ unchanged_since_scan' = [t \in Threads |-> FALSE]
    /\ UNCHANGED rootOk
    /\ EnvFrame

\* latest.json of an extension directory is removed
SyncUnlink(d) ==
    /\ envLeft > 0
    /\ rootOk
    /\ tree[d].present
    /\ tree[d].content.latest.exists
    /\ tree' = [tree EXCEPT ![d].content.latest = NoJson]
    /\ envLeft' = envLeft - 1
    /\ unchanged_since_scan' = [t \in Threads |-> FALSE]
    /\ UNCHANGED rootOk
    /\ EnvFrame

\* the sync process writes the updated.json marker of an extension
TouchMarker(d) ==
    /\ envLeft > 0
    /\ rootOk
    /\ tree[d].present
    /\ tree[d].marker # now
    /\ tree' = [tree EXCEPT ![d].marker = now]
    /\ envLeft' = envLeft - 1
    /\ UNCHANGED <<rootOk, unchanged_since_scan>>
    /\ EnvFrame

\* the storage root becomes unreadable (unmounted, permissions) or comes back
RootToggle ==
    /\ envLeft > 0
    /\ rootOk' = ~rootOk
    /\ envLeft' = envLeft - 1
    /\ unchanged_since_scan' = [t \in Threads |-> FALSE]
    /\ UNCHANGED tree
    /\ EnvFrame

\* ------------------------------------------------------------------------
\* Threads entering and leaving update_state
\* ------------------------------------------------------------------------
Goto(t, label) == pc' = [pc EXCEPT ![t] = label]
Keep(t, var, val) == [var EXCEPT ![t] = val]
LFrame == UNCHANGED <<tree, rootOk, now, envLeft, query, status>>
TFrame == LFrame /\ UNCHANGED timer

\* the locals of update_state die with its frame
Leave(t) ==
    /\ loadres' = Keep(t, loadres, "none")
    /\ extension_dirs' = Keep(t, extension_dirs, {})
    /\ done_dirs' = Keep(t, done_dirs, {})
    /\ new_extensions' = Keep(t, new_extensions, <<>>)
    /\ batch_extensions' = Keep(t, batch_extensions, <<>>)
    /\ cache_data' = Keep(t, cache_data, <<>>)
    /\ unchanged_since_scan' = Keep(t, unchanged_since_scan, FALSE)
    /\ UNCHANGED error

\* a call of update_state that sets the loaded event before the build
LoopCall_early ==
    /\ pc["loop"] = "loop_top"
    /\ Goto("loop", "load_cache")
    /\ loaded' = TRUE
    /\ next_refresh_time' = now
    /\ UNCHANGED <<extensions, indexing, indexing_progress, locals, files,
                   published, failed, unchanged_since_scan,
                   last_refresh_time, wake>>
    /\ LFrame

\* update_state_loop, lines 372-377: the sleep is over (or the thread has
\* just started) and update_state is called
LoopCall ==
    /\ pc["loop"] = "loop_top"
    /\ Goto("loop", "load_cache")
    /\ next_refresh_time' = now
    /\ UNCHANGED <<gallery, locals, files, published, failed,
                   unchanged_since_scan, last_refresh_time, wake>>
    /\ LFrame

\* update_state_loop, lines 378-385: update_state returned; loaded.set(),
\* the refresh times, time.sleep(interval)
LoopLoaded ==
    /\ pc["loop"] = "return"
    /\ loaded' = TRUE
    /\ Goto("loop", "loop_top")
    /\ Leave("loop")
    /\ last_refresh_time' = now
    /\ next_refresh_time' = now + Interval
    /\ wake' = now + Interval
    /\ UNCHANGED <<extensions, indexing, indexing_progress, files,
                   published, failed>>
    /\ LFrame

\* ArtifactChangedHandler.on_modified for a path holding 'updated.json'
on_modified ==
    /\ pc["watch"] = "idle"
    /\ Goto("watch", "load_cache")
    /\ UNCHANGED <<gallery, locals, files, published, failed,
                   unchanged_since_scan>>
    /\ TFrame

\* on_modified returns to the observer
WatchReturn ==
    /\ pc["watch"] = "return"
    /\ Goto("watch", "idle")
    /\ Leave("watch")
    /\ UNCHANGED <<gallery, files, published, failed>>
    /\ TFrame

\* ------------------------------------------------------------------------
\* VSCGallery.load_cache (called first by update_state)
\* ------------------------------------------------------------------------
\* a hit after which update_state goes on to the rebuild
CacheHit_rebuilds(t) ==
    /\ extensions' = JsonLoads(cache.text)
    /\ published' = JsonLoads(cache.text)
    /\ UNCHANGED failed
    /\ loadres' = Keep(t, loadres, "hit")
    /\ Goto(t, "scan")

\* lines 176-180: the snapshot read from the cache is published
CacheHit(t) ==
    /\ extensions' = JsonLoads(cache.text)
    /\ published' = JsonLoads(cache.text)
    /\ UNCHANGED failed
    /\ loadres' = Keep(t, loadres, "hit")
    /\ Goto(t, "return")

\* a read error that is not caught
CacheError_raises(t) ==
    /\ loadres' = Keep(t, loadres, "error")
    /\ Goto(t, "dead")
    /\ UNCHANGED <<extensions, published, failed>>

\* lines 181-184: the failure is logged, load_cache returns False
CacheError(t) ==
    /\ loadres' = Keep(t, loadres, "error")
    /\ Goto(t, "scan")
    /\ UNCHANGED <<extensions, published, failed>>

\* lines 167-184, and update_state's lines 258-259
LoadCache(t) ==
    /\ pc[t] = "load_cache"
    /\ IF CacheUsable(get_cache_mtime, get_extensions_mtime)
       THEN IF Readable(cache) THEN CacheHit(t) ELSE CacheError(t)
       ELSE /\ loadres' = Keep(t, loadres, "stale")
            /\ Goto(t, "scan")
            /\ UNCHANGED <<extensions, published, failed>>
    /\ UNCHANGED <<loaded, indexing, indexing_progress, extension_dirs,
                   done_dirs, new_extensions, batch_extensions, cache_data,
                   error, files, unchanged_since_scan>>
    /\ TFrame

\* ------------------------------------------------------------------------
\* VSCGallery.update_state after the cache check
\* ------------------------------------------------------------------------
Eligible(d) == tree[d].present /\ tree[d].content.latest.exists

total_extensions(t) == Cardinality(extension_dirs[t])
processed_count(t) == Cardinality(done_dirs[t])

\* a failure of the scan that also empties the snapshot
ScanFailure_clears(t) ==
    /\ extensions' = <<>>
    /\ Goto(t, "dead")
    /\ error' = Keep(t, error, "OSError")
    /\ UNCHANGED <<extension_dirs, unchanged_since_scan, indexing_progress>>

\* line 265: os.scandir of the root raises and the exception leaves
\* update_state and its caller
ScanFailure(t) ==
    /\ Goto(t, "dead")
    /\ error' = Keep(t, error, "OSError")
    /\ UNCHANGED <<extensions, extension_dirs, unchanged_since_scan,
                   indexing_progress>>

\* lines 264-270: the directories that hold a latest.json
Enumerate(t) == {d \in Dirs : Eligible(d)}

\* lines 262-276: indexing.set(), the scan of the root, stage 'scanning'
ScanRoot(t) ==
    /\ pc[t] = "scan"
    /\ indexing' = TRUE
    /\ IF ~rootOk
       THEN ScanFailure(t)
       ELSE /\ extension_dirs' = Keep(t, extension_dirs, Enumerate(t))
            /\ unchanged_since_scan' = Keep(t, unchanged_since_scan, TRUE)
            /\ indexing_progress' =
                    [current |-> 0, total |-> Cardinality(Enumerate(t)),
                     stage |-> "scanning"]
            /\ Goto(t, "processing")
            /\ UNCHANGED <<extensions, error>>
    /\ UNCHANGED <<loaded, loadres, done_dirs, new_extensions,
                   batch_extensions, cache_data, files, published, failed>>
    /\ TFrame

\* lines 281-291: stage 'processing', the futures are submitted
ProgressProcessing(t) ==
    /\ pc[t] = "processing"
    /\ indexing_progress' = [current |-> 0, total |-> total_extensions(t),
                             stage |-> "processing"]
    /\ Goto(t, IF extension_dirs[t] = {} THEN "swap" ELSE "collect")
    /\ UNCHANGED <<extensions, loaded, indexing, locals, files, published,
                   failed,
                   unchanged_since_scan>>
    /\ TFrame

\* map[key] = val
Put(map, key, val) ==
    [k \in DOMAIN map \cup {key} |-> IF k = key THEN val ELSE map[k]]

\* dict.update
Update(map, other) ==
    [k \in DOMAIN map \cup DOMAIN other |->
        IF k \in DOMAIN other THEN other[k] ELSE map[k]]

\* the worker's process_single_extension(extensiondir) on the tree as it is
LoadDir(d) ==
    IF rootOk /\ tree[d].present
    THEN process_single_extension(tree[d].content, d)
    ELSE None

\* a failed load that ends the rebuild
CollectFailure_aborts(t, last) ==
    /\ UNCHANGED <<new_extensions, batch_extensions>>
    /\ Goto(t, "dead")

\* lines 308-310, 322-325: the future gave nothing, or raised
CollectFailure(t, last) ==
    /\ UNCHANGED <<new_extensions, batch_extensions>>
    /\ Goto(t, IF last THEN "swap" ELSE "collect")

\* lines 296-315, 320-325: one future completes and is taken up
Collect(t, d) ==
    /\ pc[t] = "collect"
    /\ d \in extension_dirs[t] \ done_dirs[t]
    /\ \E latest \in {LoadDir(d)} :
       LET count == processed_count(t) + 1
           last == count = total_extensions(t)
       IN  /\ done_dirs' = Keep(t, done_dirs, done_dirs[t] \cup {d})
           /\ indexing_progress' =
                    [indexing_progress EXCEPT !.current = count]
           /\ IF latest # None
              THEN LET batch == Put(batch_extensions[t], latest.identity,
                                    latest)
                   IN /\ new_extensions' =
                            Keep(t, new_extensions,
                                 Put(new_extensions[t], latest.identity,
                                     latest))
                      /\ batch_extensions' = Keep(t, batch_extensions, batch)
                      /\ Goto(t, IF Cardinality(DOMAIN batch) >= batch_size
                                    \/ last
                                 THEN "flush"
                                 ELSE "collect")
              ELSE CollectFailure(t, last)
    /\ UNCHANGED <<extensions, loaded, indexing, loadres, extension_dirs,
                   cache_data, error, files, published, failed,
                   unchanged_since_scan>>
    /\ TFrame

\* lines 316-318: self.extensions.update(batch_extensions)
Flush(t) ==
    /\ pc[t] = "flush"
    /\ extensions' = Update(extensions, batch_extensions[t])
    /\ batch_extensions' = Keep(t, batch_extensions, <<>>)
    /\ Goto(t, IF done_dirs[t] = extension_dirs[t] THEN "swap" ELSE "collect")
    /\ UNCHANGED <<loaded, indexing, indexing_progress, loadres,
                   extension_dirs, done_dirs, new_extensions, cache_data,
                   error, files, published, failed, unchanged_since_scan>>
    /\ TFrame

\* an assignment that keeps the records of the previous snapshot
Swap_merge(t) ==
    /\ pc[t] = "swap"
    /\ extensions' = Update(extensions, new_extensions[t])
    /\ published' = Update(extensions, new_extensions[t])
    /\ failed' = extension_dirs[t] \ DOMAIN new_extensions[t]
    /\ Goto(t, "caching")
    /\ UNCHANGED <<loaded, indexing, indexing_progress, locals, files,
                   unchanged_since_scan>>
    /\ TFrame

\* lines 327-328: self.extensions = new_extensions
Swap(t) ==
    /\ pc[t] = "swap"
    /\ extensions' = new_extensions[t]
    /\ published' = new_extensions[t]
    /\ failed' = extension_dirs[t] \ DOMAIN new_extensions[t]
    /\ Goto(t, "caching")
    /\ UNCHANGED <<loaded, indexing, indexing_progress, locals, files,
                   unchanged_since_scan>>
    /\ TFrame

\* ------------------------------------------------------------------------
\* VSCGallery.save_cache
\* ------------------------------------------------------------------------
\* lines 331-335 and 189-190: stage 'caching'; save_cache copies
\* self.extensions
ProgressCaching(t) ==
    /\ pc[t] = "caching"
    /\ indexing_progress' = [current |-> total_extensions(t),
                             total |-> total_extensions(t),
                             stage |-> "caching"]
    /\ cache_data' = Keep(t, cache_data, extensions)
    /\ Goto(t, "save_open")
    /\ UNCHANGED <<extensions, loaded, indexing, loadres, extension_dirs,
                   done_dirs, new_extensions, batch_extensions, error, files,
                   published, failed, unchanged_since_scan>>
    /\ TFrame

\* a failure of the save that leaves save_cache and update_state
SaveFailure_raises(t) ==
    /\ Goto(t, "dead")
    /\ UNCHANGED <<cache, tmp>>

\* lines 199-200: the exception is logged and save_cache returns
SaveFailure(t) ==
    /\ Goto(t, "finish")
    /\ UNCHANGED <<cache, tmp>>

\* line 194, gzip.open(temp_file, 'wt'): creates the file or truncates it,
\* or raises OSError (no space left, directory not writable)
SaveOpen(t) ==
    /\ pc[t] = "save_open"
    /\ \/ /\ tmp' = File(EmptyText, now,
                         (IF tmp.exists THEN tmp.writers ELSE {}) \cup {t},
                         <<>>)
          /\ Goto(t, "save_dump")
          /\ UNCHANGED cache
       \/ SaveFailure(t)
    /\ UNCHANGED <<gallery, locals, published, failed, unchanged_since_scan>>
    /\ TFrame

\* What the file holds once t has written its document from offset 0 and
\* closed: its document when nothing was written since the truncation,
\* otherwise its document or, when a longer one lay there, a damaged text.
Written(file, t) ==
    LET whole == File(JsonDump(cache_data[t]), now, file.writers \ {t},
                      cache_data[t])
        damaged == File(Garbage, now, file.writers \ {t}, <<>>)
    IN  IF file.text = EmptyText THEN {whole} ELSE {whole, damaged}

\* lines 194-195: json.dump and the close of the with block
SaveDump(t) ==
    /\ pc[t] = "save_dump"
    /\ IF tmp.exists /\ t \in tmp.writers
       THEN tmp' \in Written(tmp, t) /\ UNCHANGED cache
       ELSE IF cache.exists /\ t \in cache.writers
       THEN cache' \in Written(cache, t) /\ UNCHANGED tmp
       ELSE UNCHANGED <<cache, tmp>>     \* the file was unlinked meanwhile
    /\ Goto(t, "save_rename")
    /\ UNCHANGED <<gallery, locals, published, failed, unchanged_since_scan>>
    /\ TFrame

\* line 197, and lines 199-200 when temp_file is gone (FileNotFoundError)
SaveRename(t) ==
    /\ pc[t] = "save_rename"
    /\ IF tmp.exists
       THEN cache' = tmp /\ tmp' = NoFile /\ Goto(t, "finish")
       ELSE SaveFailure(t)
    /\ UNCHANGED <<gallery, locals, published, failed, unchanged_since_scan>>
    /\ TFrame

\* ------------------------------------------------------------------------
\* VSCGallery.update_state, the end
\* ------------------------------------------------------------------------
\* an end of update_state that leaves the progress as it is
Finish_keeps(t) ==
    /\ pc[t] = "finish"
    /\ indexing' = FALSE
    /\ Goto(t, "return")
    /\ UNCHANGED <<extensions, loaded, indexing_progress, locals, files,
                   published, failed, unchanged_since_scan>>
    /\ TFrame

\* lines 338-340: stage 'idle', indexing.clear()
Finish(t) ==
    /\ pc[t] = "finish"
    /\ indexing_progress' = Idle
    /\ indexing' = FALSE
    /\ Goto(t, "return")
    /\ UNCHANGED <<extensions, loaded, locals, files, published, failed,
                   unchanged_since_scan>>
    /\ TFrame

\* ------------------------------------------------------------------------
\* VSCGallery.on_post / _apply_criteria
\* ------------------------------------------------------------------------
\* vsc.FilterType
Tag == 1
ExtensionId == 4
Category == 5
ExtensionName == 7
Target == 8
Featured == 9
SearchText == 10
ExcludeWithFlags == 12
\* lines 451-453, 460-462, 469-474, 485-486: the kinds the loop passes over
Unsupported == {Tag, Category, Target, Featured, ExcludeWithFlags}

\* str.lower()
Lower(str) == [i \in DOMAIN str |-> IF str[i] > 10 THEN str[i] - 10 ELSE str[i]]

\* sub in str
Contains(sub, str) ==
    \E i \in 0..(Len(str) - Len(sub)) :
        \A j \in 1..Len(sub) : str[i + j] = sub[j]

RECURSIVE Ascending(_)
\* 'for name in extensions': the model takes the keys in ascending order
Ascending(keys) ==
    IF keys = {} THEN <<>>
    ELSE LET least == CHOOSE k \in keys : \A other \in keys : k <= other
         IN  <<least>> \o Ascending(keys \ {least})

\* lines 478-483: the test of one extension against a SearchText value
TextMatch(val, name, ext) ==
    \/ Contains(val, Lower(ExtName(name)))
    \/ Has(ext, "displayName") /\ Contains(val, Lower(ext.displayName))
    \/ Has(ext, "shortDescription")
        /\ Contains(val, Lower(ext.shortDescription))

\* lines 446-489: does criterion crit append the extension of key name
Appends(crit, name, ext) ==
    /\ Has(crit, "filterType") /\ Has(crit, "value")
    /\ LET ft == crit.filterType
           val == Lower(crit.value)
       IN  \/ ft = ExtensionId /\ val = ext.extensionId
           \/ ft = ExtensionName /\ Lower(ExtName(name)) = val
           \/ ft = SearchText /\ TextMatch(val, name, ext)

RECURSIVE Appended(_, _, _)
\* what one pass of the loop over criteria appends to result
Appended(crit, names, exts) ==
    IF names = <<>> THEN <<>>
    ELSE (IF Appends(crit, names[1], exts[names[1]])
          THEN <<exts[names[1]]>> ELSE <<>>)
         \o Appended(crit, Tail(names), exts)

RECURSIVE Dedup(_)
Dedup(seq) ==
    IF seq = <<>> THEN <<>>
    ELSE LET rest == Dedup(SubSeq(seq, 1, Len(seq) - 1))
             x == seq[Len(seq)]
         IN  IF \E i \in 1..Len(rest) : rest[i] = x THEN rest
             ELSE Append(rest, x)

RECURSIVE Filtered_unique(_, _)
\* a loop over criteria that appends an extension once only
Filtered_unique(crits, exts) ==
    IF crits = <<>> THEN <<>>
    ELSE Dedup(Appended(crits[1], Ascending(DOMAIN exts), exts)
               \o Filtered_unique(Tail(crits), exts))

RECURSIVE Filtered(_, _)
\* lines 445-489: result after the loop over criteria
Filtered(crits, exts) ==
    IF crits = <<>> THEN <<>>
    ELSE Appended(crits[1], Ascending(DOMAIN exts), exts)
         \o Filtered(Tail(crits), exts)

\* line 493
Recommended(exts) ==
    LET names == Ascending(DOMAIN exts)
        flagged(n) == Has(exts[n], "recommended") /\ exts[n].recommended
        keep == SelectSeq(names, flagged)
    IN  [i \in 1..Len(keep) |-> exts[keep[i]]]

\* a fallback taken whatever the number of criteria
apply_criteria_always(exts, crits) ==
    LET found == Filtered(crits, exts)
    IN  IF Len(found) <= 0 THEN Recommended(exts) ELSE found

\* lines 441-495
apply_criteria(exts, crits) ==
    LET found == Filtered(crits, exts)
    IN  IF Len(found) <= 0 /\ Len(crits) <= 2
        THEN Recommended(exts)
        ELSE found

\* ------------------------------------------------------------------------
\* VSCGallery.on_post: sort parameters, _sort, _build_response
\* ------------------------------------------------------------------------
\* vsc.SortBy
NoneOrRelevance == 0
LastUpdatedDate == 1
Title == 2
PublisherName == 3
InstallCount == 4
PublishedDate == 5
AverageRating == 6
WeightedRating == 12
\* vsc.SortOrder
Order_Default == 0
Order_Ascending == 1
Order_Descending == 2

\* a default that sorts install counts upward
SortParams_ascending(req) ==
    LET given(key) == Has(req, key) /\ req[key] # 0
        sortorder == IF given("sortOrder") THEN req.sortOrder
                     ELSE Order_Default
        sortby == IF given("sortBy") THEN req.sortBy ELSE NoneOrRelevance
    IN  IF sortby = NoneOrRelevance
        THEN [sortby |-> InstallCount, sortorder |-> Order_Ascending]
        ELSE [sortby |-> sortby, sortorder |-> sortorder]

\* on_post, lines 393-405: .get() of an absent or zero value is falsy
SortParams(req) ==
    LET given(key) == Has(req, key) /\ req[key] # 0
        sortorder == IF given("sortOrder") THEN req.sortOrder
                     ELSE Order_Default
        sortby == IF given("sortBy") THEN req.sortBy ELSE NoneOrRelevance
    IN  IF sortby = NoneOrRelevance
        THEN [sortby |-> InstallCount, sortorder |-> Order_Descending]
        ELSE [sortby |-> sortby, sortorder |-> sortorder]

\* ord(): "A", "B" come before "a", "b"
Ord(c) == IF c > 10 THEN 54 + c ELSE 96 + c
Str(text) == [i \in DOMAIN text |-> Ord(text[i])]

\* Keys are tuples compared as Python compares: a string is the tuple of
\* its code points, a number the tuple of itself.
KeyError == [raised |-> TRUE, key |-> <<>>]
Key(k) == [raised |-> FALSE, key |-> k]

\* vsc.Utility.from_json_datetime: strptime with "%Y-%m-%dT%H:%M:%S.%fZ"
\* raises ValueError on a text without the fraction
from_json_datetime(jsondate) ==
    IF jsondate.fraction THEN Key(<<jsondate.stamp>>) ELSE KeyError

\* the key functions of _sort, lines 418-439
SortKey(k, sortby) ==
    IF sortby = PublisherName
    THEN IF Has(k, "publisher") /\ Has(k.publisher, "publisherName")
         THEN Key(Str(k.publisher.publisherName)) ELSE KeyError
    ELSE IF sortby = InstallCount THEN Key(<<k.stats.install>>)
    ELSE IF sortby = AverageRating THEN Key(<<k.stats.averagerating>>)
    ELSE IF sortby = WeightedRating THEN Key(<<k.stats.weightedRating>>)
    ELSE IF sortby = LastUpdatedDate
    THEN IF Has(k, "lastUpdated") THEN from_json_datetime(k.lastUpdated)
         ELSE KeyError
    ELSE IF sortby = PublishedDate
    THEN IF Has(k, "publishedDate") THEN from_json_datetime(k.publishedDate)
         ELSE KeyError
    ELSE IF Has(k, "displayName") THEN Key(Str(k.displayName))
    ELSE KeyError

\* a reverse flag that follows the requested direction for every key
Reverse_plain(sortby, sortorder) == sortorder # Order_Ascending

\* lines 413-416, 419 and 438: the reverse flag handed to list.sort
Reverse(sortby, sortorder) ==
    LET rev == sortorder # Order_Ascending
    IN  IF sortby \in {InstallCount, AverageRating, WeightedRating,
                       LastUpdatedDate, PublishedDate}
        THEN rev
        ELSE ~rev

\* a key function raised: the exception leaves _sort and on_post
SortRaises(seq, sortby) ==
    \E i \in 1..Len(seq) : SortKey(seq[i], sortby).raised

\* a must stand before b: its key is smaller, or larger when reversed
Precedes(a, b, sortby, rev) ==
    LET ka == SortKey(a, sortby).key
        kb == SortKey(b, sortby).key
    IN  IF rev THEN TupleLess(kb, ka) ELSE TupleLess(ka, kb)

\* a place that puts an element before the earlier elements equal to it
Place_unstable(seq, i, sortby, rev) ==
    1 + Cardinality({j \in 1..Len(seq) :
                        \/ Precedes(seq[j], seq[i], sortby, rev)
                        \/ j > i /\ ~Precedes(seq[i], seq[j], sortby, rev)})

\* list.sort is stable, with reverse=True too: the place of seq[i] in the
\* sorted list is after the elements that must stand before it and after
\* the earlier elements of the same key
Place(seq, i, sortby, rev) ==
    1 + Cardinality({j \in 1..Len(seq) :
                        \/ Precedes(seq[j], seq[i], sortby, rev)
                        \/ j < i /\ ~Precedes(seq[i], seq[j], sortby, rev)})

\* result.sort(key=..., reverse=rev)
list_sort(seq, sortby, rev) ==
    [r \in 1..Len(seq) |->
        seq[CHOOSE i \in 1..Len(seq) : Place(seq, i, sortby, rev) = r]]

\* VSCGallery._sort, lines 412-439
sort(res, sortby, sortorder) ==
    list_sort(res, sortby, Reverse(sortby, sortorder))

FirstOnly(seq) == IF seq = <<>> THEN <<>> ELSE <<seq[1]>>

\* an envelope whose page holds one extension at most
build_response_paged(resultingExtensions) ==
    [results |->
        <<[extensions |-> FirstOnly(resultingExtensions),
           pagingToken |-> None,
           resultMetadata |->
             <<[metadataType |-> "ResultCount",
                metadataItems |->
                  <<[name |-> "TotalCount",
                     count |-> Len(resultingExtensions)]>>]>>]>>]

\* VSCGallery._build_response, lines 497-517
build_response(resultingExtensions) ==
    [results |->
        <<[extensions |-> resultingExtensions,
           pagingToken |-> None,
           resultMetadata |->
             <<[metadataType |-> "ResultCount",
                metadataItems |->
                  <<[name |-> "TotalCount",
                     count |-> Len(resultingExtensions)]>>]>>]>>]

\* on_post, lines 407-410, or the 500 falcon sends for the exception
Respond(found, sort_request) ==
    LET p == SortParams(sort_request)
    IN  IF SortRaises(found, p.sortby)
        THEN [status |-> 500]
        ELSE [status |-> 200,
              media |-> build_response(sort(found, p.sortby, p.sortorder))]

\* Requests: the criteria of a request
QueryValues == {<<11>>, <<2>>, <<12, 1>>}
Criteria ==
    {[filterType |-> ft, value |-> v] :
        ft \in {ExtensionId, ExtensionName, SearchText}, v \in QueryValues}
    \cup {[filterType |-> ft, value |-> <<2>>] : ft \in Unsupported}
    \cup {[value |-> <<2>>]}
SeqsUpTo(S, n) == UNION {[1..k -> S] : k \in 0..n}
AllRequests == SeqsUpTo(Criteria, MaxCriteria)
\* the requests made while the gallery rebuilds: no criteria, one search
Requests == {<<>>, <<[filterType |-> SearchText, value |-> <<2>>]>>}
\* their sort: none given, or install counts upward
Sortings ==
    {NoSorting, [sortBy |-> InstallCount, sortOrder |-> Order_Ascending]}
\* every sortBy and sortOrder a request can carry; 7 is a sortBy that
\* vsc.SortBy accepts (an IntFlag) and that _sort has no branch for
AllSortings ==
    LET by == {NoneOrRelevance, LastUpdatedDate, Title, PublisherName,
               InstallCount, PublishedDate, AverageRating, WeightedRating,
               7}
        order == {Order_Default, Order_Ascending, Order_Descending}
    IN  {NoSorting} \cup {[sortBy |-> b] : b \in by}
        \cup {[sortOrder |-> o] : o \in order}
        \cup {[sortBy |-> b, sortOrder |-> o] : b \in by, o \in order}

QFrame ==
    UNCHANGED <<gallery, pc, locals, tree, rootOk, files, now, envLeft,
                timer, status, published, failed, unchanged_since_scan>>

\* a copy taken only while the scheduler is outside update_state
QueryCopy_locked ==
    /\ qpc = "idle"
    /\ pc["loop"] \in {"loop_top", "dead"}
    /\ criteria' \in Requests
    /\ sorting' \in Sortings
    /\ observed' = extensions
    /\ result' = <<>>
    /\ qpc' = "filter"
    /\ UNCHANGED <<response, answered>>
    /\ QFrame

\* lines 387-407 and 442: on_post takes the criteria of the request and
\* _apply_criteria copies self.extensions
QueryCopy ==
    /\ qpc = "idle"
    /\ criteria' \in Requests
    /\ sorting' \in Sortings
    /\ observed' = extensions
    /\ result' = <<>>
    /\ qpc' = "filter"
    /\ UNCHANGED <<response, answered>>
    /\ QFrame

\* history: the query being served is the one answered last, asked again
\* of the same snapshot
Repeated ==
    /\ answered # None
    /\ answered.criteria = criteria
    /\ answered.sorting = sorting
    /\ answered.snapshot = observed

\* lines 388-391: a request without 'filters', 'criteria' or 'flags'
QueryMalformed ==
    /\ qpc = "idle"
    /\ response' = [status |-> 404]
    /\ UNCHANGED <<qpc, observed, criteria, result, sorting, answered>>
    /\ QFrame

\* a handler that filters self.extensions itself instead of its copy: the
\* snapshot is left with the extensions found
QueryRespond_inplace ==
    \E found \in {apply_criteria(observed, criteria)} :
    \E sent \in {Respond(found, sorting)} :
        /\ qpc = "filter"
        /\ result' = found
        /\ response' = sent
        /\ answered' = answered
        /\ extensions' = [d \in {found[i].identity : i \in 1..Len(found)}
                            |-> observed[d]]
        /\ observed' = <<>>
        /\ qpc' = "idle"
        /\ UNCHANGED <<criteria, sorting, loaded, indexing,
                       indexing_progress, pc, locals, tree, rootOk, files,
                       now, envLeft, timer, status, published, failed,
                       unchanged_since_scan>>

\* a handler that answers a repeated query from the answer it gave before,
\* cut to its first extension
QueryRespond_cached ==
    \E found \in {apply_criteria(observed, criteria)} :
    \E sent \in {Respond(found, sorting)} :
    LET again == answered # None /\ answered.criteria = criteria
                    /\ answered.sorting = sorting
    IN  /\ qpc = "filter"
        /\ result' = found
        /\ response' =
              IF again /\ sent.status = 200
              THEN [status |-> 200,
                    media |-> build_response(
                        FirstOnly(sent.media.results[1].extensions))]
              ELSE sent
        /\ answered' = IF sent.status = 200
                       THEN [criteria |-> criteria, sorting |-> sorting,
                             snapshot |-> observed, response |-> response',
                             repeat |-> Repeated]
                       ELSE answered
        /\ observed' = <<>>
        /\ qpc' = "idle"
        /\ UNCHANGED <<criteria, sorting>>
        /\ QFrame

\* lines 443-495 and 408-410: the filter over the copy, the sort and the
\* response; the locals of _apply_criteria die with its frame
QueryRespond ==
    \E found \in {apply_criteria(observed, criteria)} :
    \E sent \in {Respond(found, sorting)} :
        /\ qpc = "filter"
        /\ result' = found
        /\ response' = sent
        /\ answered' = IF sent.status = 200
                       THEN [criteria |-> criteria, sorting |-> sorting,
                             snapshot |-> observed, response |-> sent,
                             repeat |-> Repeated]
                       ELSE answered
        /\ observed' = <<>>
        /\ qpc' = "idle"
        /\ UNCHANGED <<criteria, sorting>>
        /\ QFrame

\* ------------------------------------------------------------------------
\* VSCStatus.on_get, VSCStatusSimple.on_get
\* ------------------------------------------------------------------------
SFrame ==
    UNCHANGED <<gallery, pc, locals, tree, rootOk, files, now, envLeft,
                query, timer, published, failed, unchanged_since_scan>>

\* a status that is 'ready' whenever no rebuild is indexing
StatusOf_eager(is_loaded, is_indexing) ==
    IF is_indexing THEN "indexing" ELSE "ready"

\* line 621
StatusOf(is_loaded, is_indexing) ==
    IF is_indexing THEN "indexing"
    ELSE IF is_loaded THEN "ready" ELSE "loading"

\* VSCStatus.on_get, lines 527-656: the status held in _cache is sent while
\* it is younger than _cache_ttl; otherwise a new one is made from the
\* loaded and indexing events, kept in _cache and sent
StatusGet ==
    /\ \/ /\ status_cache # "none"
          /\ reported' = [endpoint |-> "status.json", status |-> status_cache]
          /\ UNCHANGED status_cache
       \/ /\ status_cache' = StatusOf(loaded, indexing)
          /\ reported' = [endpoint |-> "status.json",
                          status |-> StatusOf(loaded, indexing)]
    /\ SFrame

\* a count that waits for extensions_lock while save_cache writes the file
StatusSimpleGet_blocked ==
    /\ \A t \in Threads : pc[t] \notin {"save_dump", "save_rename"}
    /\ reported' = [endpoint |-> "status-simple",
                    status |-> IF loaded THEN "ready" ELSE "loading"]
    /\ UNCHANGED status_cache
    /\ SFrame

\* VSCStatusSimple.on_get, lines 941-956
StatusSimpleGet ==
    /\ reported' = [endpoint |-> "status-simple",
                    status |-> IF loaded THEN "ready" ELSE "loading"]
    /\ UNCHANGED status_cache
    /\ SFrame

\* ------------------------------------------------------------------------
\* update_state_loop under the clock
\* ------------------------------------------------------------------------
\* line 385: time.sleep(interval) has returned
SleepOver == now >= wake

LoopCallTimed == SleepOver /\ LoopCall

\* ------------------------------------------------------------------------
\* Specifications
\* ------------------------------------------------------------------------
\* update_state_loop, the thread VSCGallery.__init__ starts
Scheduler == LoopCall \/ LoopLoaded

\* the watchdog observer thread
Observer == on_modified \/ WatchReturn

\* update_state, run by thread t
Rebuild(t) ==
    \/ LoadCache(t)
    \/ ScanRoot(t)
    \/ ProgressProcessing(t)
    \/ \E d \in Dirs : Collect(t, d)
    \/ Flush(t)
    \/ Swap(t)
    \/ ProgressCaching(t)
    \/ SaveOpen(t)
    \/ SaveDump(t)
    \/ SaveRename(t)
    \/ Finish(t)

\* the sync process and the mount of the storage root
TreeEnv ==
    \/ \E d \in Dirs : SyncWrite(d)
    \/ \E d \in Dirs : SyncRemove(d)
    \/ RootToggle

\* Spec: the scheduler and the observer rebuilding over a storage tree
\* that changes under them.
Next ==
    \/ Scheduler
    \/ Observer
    \/ \E t \in Threads : Rebuild(t)
    \/ TreeEnv

Spec == Init /\ [][Next]_vars

\* SpecQuery: request handlers querying while the scheduler rebuilds over
\* a changing tree.
NextQuery ==
    \/ Scheduler
    \/ Rebuild("loop")
    \/ QueryCopy
    \/ QueryMalformed
    \/ QueryRespond
    \/ TreeEnv

SpecQuery == Init /\ [][NextQuery]_vars

\* SpecCache: the scheduler and the observer over a tree whose timestamps
\* move, starting with no cache, a cache of an earlier run as old as the
\* tree or newer, or an unreadable file at the cache path.
InitCache ==
    /\ InitProgram
    /\ tree = AllGood
    /\ cache \in {NoFile} \cup {OldCache(m) : m \in 1..2}
                 \cup {File(Garbage, m, {}, <<>>) : m \in 1..2}

NextCache ==
    \/ Scheduler
    \/ Observer
    \/ \E t \in Threads : Rebuild(t)
    \/ Tick
    \/ \E d \in Dirs : TouchMarker(d)

SpecCache == InitCache /\ [][NextCache]_vars

\* SpecStatus: status requests while the scheduler and the observer run
\* update_state over a tree that may become unreadable.
NextStatus ==
    \/ Scheduler
    \/ Observer
    \/ \E t \in Threads : Rebuild(t)
    \/ StatusGet
    \/ StatusSimpleGet
    \/ RootToggle

SpecStatus == Init /\ [][NextStatus]_vars

\* SpecTimer: the scheduler sleeping interval between its update_state
\* calls, the observer calling update_state at any time, the clock moving.
NextTimer ==
    \/ LoopCallTimed
    \/ LoopLoaded
    \/ Observer
    \/ \E t \in Threads : Rebuild(t)
    \/ Tick

SpecTimer == Init /\ [][NextTimer]_vars

\* SpecLoop: the scheduler thread alone, scheduled fairly, over a storage
\* root that may become unreadable or readable again.
NextLoop ==
    \/ Scheduler
    \/ Rebuild("loop")
    \/ RootToggle

SpecLoop ==
    Init /\ [][NextLoop]_vars /\ WF_vars(Scheduler \/ Rebuild("loop"))

\* SpecLoad: the scheduler thread rebuilding over a tree whose last
\* directory is any of the directories a loader can meet; latest.json
\* of a directory may go away between the scan and the load.
LoaderDirs(d) ==
    {GoodDir(d), NewerDir(d), BadVersionDir(d), NoLatestDir(d)}
    \cup BadLatestDirs(d) \cup EmptyVersionDirs(d)
    \cup MalformedVersionDirs(d) \cup SameVersionDirs(d)

InitLoad ==
    /\ InitProgram
    /\ tree \in {[AllGood EXCEPT ![NumDirs] = Dir(x, 1, 0)] :
                    x \in LoaderDirs(NumDirs)}
    /\ cache = NoFile

NextLoad ==
    \/ Scheduler
    \/ Rebuild("loop")
    \/ \E d \in Dirs : SyncUnlink(d)

SpecLoad == InitLoad /\ [][NextLoad]_vars

\* SpecFilter: _apply_criteria over the copy of a snapshot of some of the
\* extensions, for every request of up to MaxCriteria criteria.
Catalogs ==
    {[d \in S |-> TreeSnapshot(AllGood)[d]] : S \in SUBSET Dirs}

InitFilter ==
    /\ InitGallery
    /\ tree = AllGood
    /\ cache = NoFile
    /\ qpc = "filter"
    /\ observed \in Catalogs
    /\ criteria \in AllRequests
    /\ result = <<>>
    /\ sorting = NoSorting
    /\ response = NoResponse
    /\ answered = None

SpecFilter == InitFilter /\ [][QueryRespond]_vars

\* SpecSort: on_post answering, for every sortBy and sortOrder, searches
\* over the snapshot of some of MaxSorted extensions.
SortCatalogs ==
    {[d \in S |-> process_single_extension(GoodDir(d), d)] :
        S \in SUBSET (1..MaxSorted)}

SortRequests ==
    SeqsUpTo({[filterType |-> SearchText, value |-> <<1>>],
              [filterType |-> SearchText, value |-> <<2>>],
              [filterType |-> ExtensionName, value |-> ExtName(MaxSorted)]},
             2)

InitSort ==
    /\ InitGallery
    /\ tree = AllGood
    /\ cache = NoFile
    /\ qpc = "filter"
    /\ observed \in SortCatalogs
    /\ criteria \in SortRequests
    /\ result = <<>>
    /\ sorting \in AllSortings
    /\ response = NoResponse
    /\ answered = None

SpecSort == InitSort /\ [][QueryRespond]_vars

\* ========================================================================
\* Properties
\* ========================================================================
Rebuilding(t) ==
    pc[t] \in {"processing", "collect", "flush", "swap", "caching",
               "save_open", "save_dump", "save_rename", "finish"}

\* the snapshots a reader may see: the one last assigned wholesale, and the
\* one a rebuild that has taken up all its futures is about to assign
WholeSnapshots ==
    {published}
    \cup {new_extensions[t] : t \in {u \in Threads : pc[u] = "swap"}}

\* C1: every query takes a catalog equal to the whole snapshot published
\* before the rebuild or to the whole snapshot the rebuild publishes at its
\* end, never a set in which records of the rebuild are merged into the
\* previous snapshot.
C1_QuerySeesWholeSnapshot ==
    [][(qpc = "idle" /\ qpc' = "filter") => observed' \in WholeSnapshots]_vars

\* C2: the scheduler's rebuild and a triggered rebuild are never in progress
\* at the same time.
C2_NoOverlappingRebuilds ==
    ~(Rebuilding("loop") /\ Rebuilding("watch"))

\* C3: when the enumeration of the storage root fails, update_state is left
\* by the filesystem error, and no step of that update_state, from its
\* cache check to the failure, has changed the published snapshot.
C3_ScanFailureKeepsSnapshot ==
    [][\A t \in Threads :
          /\ (pc[t] = "load_cache" /\ pc'[t] = "scan")
                => extensions' = extensions
          /\ (pc[t] = "scan" /\ ~rootOk /\ pc'[t] # "scan")
                => /\ pc'[t] = "dead"
                   /\ error'[t] = "OSError"
                   /\ extensions' = extensions]_vars

C3_Witness ==
    \E t \in Threads :
        pc[t] = "dead" /\ error[t] = "OSError" /\ extensions # <<>>

\* C4: a load that fails (the loader returns nothing) does not end the
\* rebuild: the rebuild goes on to the next future or to the swap, keeps
\* the records of the loads that succeeded, and publishes exactly them.
C4_FailedLoadsAbsorbed ==
    [][\A t \in Threads :
          /\ \A d \in Dirs :
                (pc[t] = "collect" /\ d \in done_dirs'[t] \ done_dirs[t])
                    => /\ pc'[t] \in {"collect", "flush", "swap"}
                       /\ IF LoadDir(d) = None
                          THEN new_extensions'[t] = new_extensions[t]
                          ELSE new_extensions'[t] =
                                   Put(new_extensions[t], d, LoadDir(d))
          /\ (pc[t] = "swap" /\ pc'[t] # "swap")
                => /\ extensions' = new_extensions[t]
                   /\ pc'[t] = "caching"
          /\ (pc[t] = "finish" /\ pc'[t] # "finish")
                => /\ pc'[t] = "return"
                   /\ indexing_progress' = Idle]_vars

C4_Witness ==
    \E t \in Threads :
        /\ pc[t] = "return"
        /\ loadres[t] = "stale"
        /\ extension_dirs[t] \ DOMAIN new_extensions[t] # {}
        /\ DOMAIN new_extensions[t] # {}
        /\ extensions = new_extensions[t]
        /\ indexing_progress = Idle

\* the directories from which the loader produces a record
Loadable == {d \in Dirs : Eligible(d) /\ LoadDir(d) # None}

\* C5: when a rebuild assigns its snapshot, and the tree has not changed
\* since the rebuild scanned it, the keys of the published snapshot are
\* exactly the directories that hold a latest.json the loader accepts: a
\* removed directory is gone, no loaded extension is missing.
C5_KeysAreScannedDirs ==
    [][\A t \in Threads :
          (pc[t] = "swap" /\ pc'[t] # "swap" /\ unchanged_since_scan[t])
              => DOMAIN extensions' = Loadable]_vars

C5_Witness ==
    \E t \in Threads : \E d \in Dirs :
        /\ pc[t] = "caching"
        /\ unchanged_since_scan[t]
        /\ ~tree[d].present
        /\ Readable(cache) /\ d \in DOMAIN JsonLoads(cache.text)
        /\ d \notin DOMAIN extensions
        /\ DOMAIN extensions = Loadable
        /\ Loadable # {}

Perms(n) == {p \in [1..n -> 1..n] : \A i, j \in 1..n : p[i] = p[j] => i = j}

\* out is in sorted descending by parsed version, equal versions in the
\* order they have in in
StableDescending(out, in) ==
    /\ Len(out) = Len(in)
    /\ \E p \in Perms(Len(in)) :
          /\ \A i \in 1..Len(in) : out[i] = in[p[i]]
          /\ \A i, j \in 1..Len(in) :
                i < j => \/ VersionLess(out[j].version, out[i].version)
                         \/ /\ VersionEq(out[i].version, out[j].version)
                            /\ p[i] < p[j]

VersionsDescending(record) ==
    /\ record.versions # <<>>
    /\ \A i, j \in 1..Len(record.versions) :
          i < j => ~VersionLess(record.versions[i].version,
                                record.versions[j].version)

\* C6: in every published snapshot every record's versions list is
\* non-empty and sorted descending by parsed version, and the list a load
\* produces keeps entries of equal version in discovery order.
C6_VersionsSorted ==
    /\ [](\A k \in DOMAIN extensions : VersionsDescending(extensions[k]))
    /\ [][\A t \in Threads : \A d \in Dirs :
            (pc[t] = "collect" /\ d \in done_dirs'[t] \ done_dirs[t]
             /\ d \in DOMAIN new_extensions'[t])
                => StableDescending(
                       new_extensions'[t][d].versions,
                       MergedVersions(tree[d].content, d).versions)]_vars

C6_Witness ==
    \E k \in DOMAIN extensions :
        LET vs == extensions[k].versions
        IN  \E i, j \in 1..Len(vs) :
                /\ i < j
                /\ VersionEq(vs[i].version, vs[j].version)
                /\ vs[i].version # vs[j].version
                /\ Len(vs) >= 3
                /\ \E t \in Threads :
                      /\ pc[t] = "caching"
                      /\ loadres[t] = "stale"
                      /\ extensions = new_extensions[t]

\* the cache file exists and is strictly newer than every extension
\* directory and every updated.json marker, all of which can be statted
StrictlyNewer ==
    /\ cache.exists
    /\ rootOk
    /\ \A d \in Dirs :
          tree[d].present
              => /\ cache.mtime > tree[d].mtime
                 /\ tree[d].marker # 0 => cache.mtime > tree[d].marker

\* C7: load_cache loads the cache only if the file exists and is strictly
\* newer than every extension directory and updated.json marker; otherwise
\* the load is rejected and update_state goes on to a full rebuild.
C7_LoadOnlyIfStrictlyNewer ==
    [][\A t \in Threads :
          (pc[t] = "load_cache" /\ pc'[t] # "load_cache")
              => /\ loadres'[t] = "hit" => StrictlyNewer
                 /\ ~StrictlyNewer
                        => /\ loadres'[t] = "stale"
                           /\ pc'[t] = "scan"
                           /\ extensions' = extensions]_vars

C7_Witness ==
    \E t \in Threads :
        /\ pc[t] = "scan"
        /\ loadres[t] = "stale"
        /\ cache.exists
        /\ cache.mtime = get_extensions_mtime

C9_UnreadableCacheFallsBack ==
    [][\A t \in Threads :
          (pc[t] = "load_cache" /\ pc'[t] # "load_cache"
           /\ StrictlyNewer /\ cache.text.kind # "json")
              => /\ extensions' = extensions
                 /\ pc'[t] = "scan"
                 /\ error'[t] = "none"]_vars

C9_Witness ==
    \E t \in Threads :
        /\ pc[t] = "return"
        /\ loadres[t] = "error"
        /\ extensions # <<>>

\* C10: the file at the cache path is absent or a whole serialization of
\* one snapshot, closed by its writer.
C10_CacheFileWhole ==
    cache.exists => (cache.writers = {} /\ cache.text.kind = "json")

\* C11: the loaded event is clear until the scheduler's first update_state
\* (a build or a cache load) has returned; the scheduler sets it as its next
\* step after that return, having published a snapshot, and no step clears
\* it.
C11_LoadedSetAfterFirstBuild ==
    [][/\ (~loaded /\ loaded')
            => /\ pc["loop"] = "return"
               /\ loadres["loop"] \in {"hit", "stale", "error"}
       /\ (pc["loop"] = "return" /\ pc'["loop"] # "return") => loaded'
       /\ (pc["loop"] # "return" /\ pc'["loop"] = "return")
            => \/ pc["loop"] = "load_cache" /\ extensions' = published'
               \/ pc["loop"] = "finish"
       /\ loaded => loaded']_vars

C11_Witness ==
    /\ loaded
    /\ pc["loop"] = "load_cache"
    /\ published # <<>>

\* a thread is between the first and the last statement of update_state
\* that follow the cache check
InUpdate(t) == pc[t] = "scan" \/ Rebuilding(t)

\* C12: the indexing event is set whenever some rebuild is scanning,
\* processing or caching, and clear whenever no rebuild is in progress.
C12_IndexingTracksRebuild ==
    /\ (\E t \in Threads : Rebuilding(t)) => indexing
    /\ (\A t \in Threads : ~InUpdate(t)) => ~indexing

\* the scheduler has come back from its first update_state (line 381)
FirstBuildCompleted == last_refresh_time > 0

C14_TimerFollowsLastRebuild ==
    [][/\ (pc["loop"] = "return" /\ pc'["loop"] # "return"
           /\ loadres["loop"] # "hit")
            => next_refresh_time' = now + Interval
       /\ (pc["watch"] = "return" /\ pc'["watch"] # "return"
           /\ loadres["watch"] # "hit" /\ pc["loop"] = "loop_top" /\ loaded)
            => next_refresh_time' = now + Interval
       /\ (pc["loop"] = "loop_top" /\ pc'["loop"] # "loop_top" /\ loaded)
            => now >= next_refresh_time]_vars

\* C15: a trigger taken up while the scheduler is not rebuilding goes on to
\* the scan of the storage tree.
C15_TriggerRebuilds ==
    [][(pc["watch"] = "load_cache" /\ pc'["watch"] # "load_cache"
        /\ ~InUpdate("loop"))
          => pc'["watch"] = "scan"]_vars

\* C16: when the load of a directory failed in the last rebuild and the
\* directory is still there, the scheduler's next periodic update_state
\* goes on to the scan, which submits that directory again.
C16_FailedLoadRetried ==
    [][(pc["loop"] = "load_cache" /\ pc'["loop"] # "load_cache" /\ loaded
        /\ \E d \in failed : Eligible(d))
          => pc'["loop"] = "scan"]_vars

Satisfies(crit, ext) ==
    /\ {"filterType", "value"} \subseteq DOMAIN crit
    /\ LET v == Lower(crit.value)
           In(field) == field \in DOMAIN ext /\ Contains(v, Lower(ext[field]))
       IN  CASE crit.filterType = ExtensionId -> v = ext.extensionId
             [] crit.filterType = ExtensionName ->
                    v = Lower(ExtName(ext.identity))
             [] crit.filterType = SearchText ->
                    \/ Contains(v, Lower(ExtName(ext.identity)))
                    \/ In("displayName")
                    \/ In("shortDescription")
             [] OTHER -> FALSE

FilterKinds == {ExtensionId, ExtensionName, SearchText}
KindsGiven(crits) ==
    {crits[i].filterType :
        i \in {j \in DOMAIN crits : /\ "filterType" \in DOMAIN crits[j]
                                    /\ crits[j].filterType \in FilterKinds}}
SatisfiesKind(kind, crits, ext) ==
    \E i \in DOMAIN crits :
        /\ "filterType" \in DOMAIN crits[i]
        /\ crits[i].filterType = kind
        /\ Satisfies(crits[i], ext)

\* C18: when the criteria are of two kinds or more and some extension
\* satisfies every kind, each extension of the result satisfies every kind.
C18_KindsIntersect ==
    [][(/\ qpc = "filter" /\ qpc' = "idle"
        /\ Cardinality(KindsGiven(criteria)) >= 2
        /\ \E n \in DOMAIN observed :
              \A kind \in KindsGiven(criteria) :
                  SatisfiesKind(kind, criteria, observed[n]))
          => \A i \in DOMAIN result' : \A kind \in KindsGiven(criteria) :
                  SatisfiesKind(kind, criteria, result'[i])]_vars

Count(seq, x) == Cardinality({i \in DOMAIN seq : seq[i] = x})
MatchCount(crits, ext) ==
    Cardinality({i \in DOMAIN crits : Satisfies(crits[i], ext)})
OnlySearchText(crits) ==
    \A i \in DOMAIN crits :
        "filterType" \in DOMAIN crits[i] /\ crits[i].filterType = SearchText
\* the extensions of exts that match crit, each once, in snapshot order
MatchesOf(crit, exts) ==
    LET names == Ascending(DOMAIN exts)
        hit(n) == Satisfies(crit, exts[n])
        kept == SelectSeq(names, hit)
    IN  [i \in 1..Len(kept) |-> exts[kept[i]]]

RECURSIVE InCriteriaOrder(_, _)
\* the matches of the first criterion, then those of the second, ...
InCriteriaOrder(crits, exts) ==
    IF crits = <<>> THEN <<>>
    ELSE MatchesOf(crits[1], exts) \o InCriteriaOrder(Tail(crits), exts)

\* C19: with two SearchText criteria or more, an extension that matches k
\* of them, k >= 1, is k times in the result, and the result is made of the
\* matches of the first criterion, then those of the second, and so on.
C19_SearchTextsConcatenate ==
    [][(/\ qpc = "filter" /\ qpc' = "idle"
        /\ Len(criteria) >= 2 /\ OnlySearchText(criteria))
          => /\ \A n \in DOMAIN observed :
                    MatchCount(criteria, observed[n]) >= 1
                        => Count(result', observed[n])
                               = MatchCount(criteria, observed[n])
             /\ (\E n \in DOMAIN observed :
                    MatchCount(criteria, observed[n]) >= 1)
                    => result' = InCriteriaOrder(criteria, observed)]_vars

C19_Witness ==
    /\ qpc = "idle"
    /\ Len(criteria) >= 2 /\ OnlySearchText(criteria)
    /\ \E i, j \in DOMAIN result :
          /\ i < j /\ result[i] = result[j]
          /\ MatchCount(criteria, result[i]) = 2
          /\ Count(result, result[i]) = 2
    /\ \E i \in DOMAIN result : Count(result, result[i]) = 1

\* C20: when no extension of the snapshot matches any criterion, the
\* result is the extensions flagged recommended, each once, if at most two
\* criteria were given, and empty if more were given.
C20_FallbackToRecommended ==
    [][(/\ qpc = "filter" /\ qpc' = "idle"
        /\ \A n \in DOMAIN observed : MatchCount(criteria, observed[n]) = 0)
          => IF Len(criteria) <= 2
             THEN LET flagged ==
                          {observed[n] : n \in
                              {m \in DOMAIN observed :
                                  /\ "recommended" \in DOMAIN observed[m]
                                  /\ observed[m].recommended}}
                  IN  /\ {result'[i] : i \in DOMAIN result'} = flagged
                      /\ Len(result') = Cardinality(flagged)
             ELSE result' = <<>>]_vars

C20_Witness ==
    /\ qpc = "idle"
    /\ Len(criteria) = 2
    /\ result # <<>>
    /\ \A i \in DOMAIN result :
          /\ result[i].recommended
          /\ MatchCount(criteria, result[i]) = 0

\* ------------------------------------------------------------------------
\* Sorting and the response envelope
\* ------------------------------------------------------------------------
Answering == qpc = "filter" /\ qpc' = "idle"
Extensions(resp) == resp.media.results[1].extensions
Installs(exts) == [i \in 1..Len(exts) |-> exts[i].stats.install]
Identities(exts) == [i \in 1..Len(exts) |-> exts[i].identity]
NonIncreasing(ns) == \A i, j \in 1..Len(ns) : i < j => ns[i] >= ns[j]
SameElements(a, b) ==
    /\ Len(a) = Len(b)
    /\ \A i \in 1..Len(a) : Count(a, a[i]) = Count(b, a[i])
NoSortBy(req) == ~Has(req, "sortBy") \/ req.sortBy = 0
DefaultDirection(req) == ~Has(req, "sortOrder") \/ req.sortOrder = 0

\* C21: a request without sortBy (or with sortBy 0) is answered with the
\* filtered extensions ordered by install count, largest first; so is a
\* request with sortBy InstallCount and the default direction, so that
\* installs A=10, B=50, C=30 come back as B, C, A.
C21_DefaultInstallCountDescending ==
    [][(Answering
        /\ \/ NoSortBy(sorting)
           \/ sorting.sortBy = InstallCount /\ DefaultDirection(sorting))
       => /\ response'.status = 200
          /\ SameElements(Extensions(response'), result')
          /\ NonIncreasing(Installs(Extensions(response')))
          /\ Installs(result') = <<10, 50, 30>>
                => Installs(Extensions(response')) = <<50, 30, 10>>]_vars

C21_Witness ==
    /\ qpc = "idle"
    /\ sorting = [sortBy |-> InstallCount]
    /\ response.status = 200
    /\ Identities(result) = <<1, 2, 3>>
    /\ Identities(Extensions(response)) = <<2, 3, 1>>

\* the sort key the request asks for, as the specification names it
KeyOf(ext, req) == SortKey(ext, SortParams(req).sortby).key

\* C22: whatever the sort key and the direction, the extensions that have
\* the same sort key stand in the sorted output in the order they had in
\* the filtered result.
C22_SortStable ==
    [][(Answering /\ response'.status = 200)
       => \A i \in 1..Len(result') :
            LET same(e) == KeyOf(e, sorting) = KeyOf(result'[i], sorting)
            IN  SelectSeq(Extensions(response'), same)
                    = SelectSeq(result', same)]_vars

\* descending install counts: the last extension, found first, stays
\* before the first one, which has as many installs
C22_Witness ==
    /\ qpc = "idle"
    /\ sorting = [sortBy |-> InstallCount, sortOrder |-> Order_Descending]
    /\ response.status = 200
    /\ Identities(result) = <<MaxSorted, 1, 3, MaxSorted>>
    /\ Identities(Extensions(response)) = <<3, MaxSorted, 1, MaxSorted>>

\* C23: the body of every answer to a query has exactly one element in
\* results; its pagingToken is null, its extensions are the whole sorted
\* result and its TotalCount is the length of that list.
C23_OnePageEnvelope ==
    [][(Answering /\ response'.status = 200)
       => LET results == response'.media.results
              p == SortParams(sorting)
          IN  /\ Len(results) = 1
              /\ results[1].pagingToken = None
              /\ results[1].extensions = sort(result', p.sortby, p.sortorder)
              /\ SameElements(results[1].extensions, result')
              /\ Len(results[1].resultMetadata) = 1
              /\ results[1].resultMetadata[1].metadataItems
                    = <<[name |-> "TotalCount",
                         count |-> Len(results[1].extensions)]>>]_vars

C23_Witness ==
    /\ qpc = "idle"
    /\ response.status = 200
    /\ Len(result) = 2 * MaxSorted
    /\ Len(Extensions(response)) = 2 * MaxSorted
    /\ response.media.results[1].resultMetadata[1].metadataItems[1].count
            = 2 * MaxSorted

VersionStrings(dir) ==
    LET latest == load_json(dir.latest)
        first(k) == load_json(dir.subdirs[k].ext)
    IN  {latest.versions[i].version : i \in 1..Len(latest.versions)}
        \cup (IF dir.listable
              THEN {first(k).versions[1].version :
                        k \in {j \in 1..Len(dir.subdirs) : first(j) # None}}
              ELSE {})

Unparseable(d) ==
    /\ rootOk /\ Eligible(d)
    /\ load_json(tree[d].content.latest) # None
    /\ StrEmpty \in VersionStrings(tree[d].content)

\* C25: when a version string of an extension cannot be parsed, the loader
\* returns no record for the extension, the rebuild goes on with the other
\* extensions, and the snapshot it publishes holds the records of the
\* others and none for that extension.
C25_UnparseableVersionSkipsExtension ==
    [][\A t \in Threads :
          /\ \A d \in Dirs :
                (pc[t] = "collect" /\ d \in done_dirs'[t] \ done_dirs[t]
                    /\ Unparseable(d))
                    => /\ LoadDir(d) = None
                       /\ d \notin DOMAIN new_extensions'[t]
                       /\ pc'[t] \in {"collect", "flush", "swap"}
          /\ (pc[t] = "swap" /\ pc'[t] # "swap" /\ unchanged_since_scan[t])
                => \A d \in extension_dirs[t] :
                      IF Unparseable(d)
                      THEN d \notin DOMAIN extensions'
                      ELSE LoadDir(d) # None
                             => /\ d \in DOMAIN extensions'
                                /\ extensions'[d] = LoadDir(d)]_vars

C25_Witness ==
    \E t \in Threads : \E d \in extension_dirs[t] :
        /\ pc[t] = "return"
        /\ unchanged_since_scan[t]
        /\ Unparseable(d)
        /\ d \notin DOMAIN extensions
        /\ extensions = new_extensions[t]
        /\ DOMAIN extensions = extension_dirs[t] \ {d}
        /\ extensions # <<>>

\* C26: after the enumeration of the storage root has failed in the
\* scheduler's update_state, the scheduler calls update_state again at some
\* later time.
C26_LoopSurvivesScanFailure ==
    [](error["loop"] = "OSError" => <>(pc["loop"] = "load_cache"))

NoRebuild == \A t \in Threads : ~InUpdate(t)

\* C27: whenever no rebuild is in progress, after a rebuild that completed
\* or failed as much as before the first one, indexing_progress is
\* {stage: idle, current: 0, total: 0}; and indexing_progress changes
\* only in a step taken while a rebuild is in progress.
C27_ProgressIdleOutsideRebuild ==
    /\ [](NoRebuild => indexing_progress = Idle)
    /\ [][indexing_progress' # indexing_progress => ~NoRebuild]_vars

\* one rebuild has completed, another has failed at the scan
C27_Witness ==
    /\ pc["loop"] = "return" /\ loadres["loop"] = "stale"
    /\ pc["watch"] = "dead" /\ error["watch"] = "OSError"
    /\ extensions # <<>>
    /\ indexing_progress = Idle

StageRank(stage) ==
    IF stage = "scanning" THEN 1
    ELSE IF stage = "processing" THEN 2
    ELSE IF stage = "caching" THEN 3
    ELSE 4

\* C28: while a rebuild is in progress the stage of indexing_progress goes
\* through scanning, processing, caching, idle in that order: before it is
\* idle it never goes back to an earlier stage.
C28_StageNeverMovesBackward ==
    [][indexing_progress.stage # "idle"
        => StageRank(indexing_progress'.stage)
                >= StageRank(indexing_progress.stage)]_vars

\* a step of save_cache in which the save fails
SaveFails(t) ==
    \/ pc[t] = "save_open" /\ pc'[t] \notin {"save_open", "save_dump"}
    \/ pc[t] = "save_rename" /\ ~tmp.exists /\ pc'[t] # "save_rename"

\* C29: a save of the cache that fails does not leave update_state by an
\* exception: the rebuild goes on to its end with the snapshot it
\* published still in place, and its end clears the indexing event and
\* sets indexing_progress to idle.
C29_SaveFailureNotPropagated ==
    [][\A t \in Threads :
          /\ SaveFails(t)
                => /\ pc'[t] = "finish"
                   /\ error'[t] = error[t]
                   /\ extensions' = extensions
                   /\ published' = published
          /\ (pc[t] = "finish" /\ pc'[t] # "finish")
                => /\ pc'[t] = "return"
                   /\ ~indexing'
                   /\ indexing_progress' = Idle
                   /\ extensions' = extensions]_vars

\* the scheduler's rebuild has returned and there is no cache file
C29_Witness ==
    /\ pc["loop"] = "return" /\ loadres["loop"] = "stale"
    /\ pc["watch"] = "idle"
    /\ ~cache.exists
    /\ extensions # <<>> /\ extensions = published
    /\ ~indexing
    /\ indexing_progress = Idle

\* C30: when the storage tree cannot be listed, load_cache does not load
\* the cache, however new the cache file is: it returns False and the
\* snapshot is left as it is.
C30_UnreadableTreeIsStale ==
    [][\A t \in Threads :
          (pc[t] = "load_cache" /\ pc'[t] # "load_cache" /\ ~rootOk)
              => /\ loadres'[t] = "stale"
                 /\ pc'[t] = "scan"
                 /\ extensions' = extensions]_vars

C30_Witness ==
    \E t \in Threads :
        /\ pc[t] = "scan" /\ loadres[t] = "stale"
        /\ ~rootOk
        /\ Readable(cache) /\ cache.mtime > 0
\* ------------------------------------------------------------------------
\* Unsupported criteria and sort directions
\* ------------------------------------------------------------------------
IsUnsupported(crit) ==
    Has(crit, "filterType") /\ crit.filterType \in Unsupported
WithoutUnsupported(crits) == SelectSeq(crits, LAMBDA c : ~IsUnsupported(c))

\* C31: a criterion of an unsupported kind (Tag, Category, Featured,
\* ExcludeWithFlags, Target) is a no-op: the result list of a query is the
\* result list of the same query without its unsupported criteria.
C31_UnsupportedKindIsNoOp ==
    [][Answering
          => result' = apply_criteria(observed,
                                      WithoutUnsupported(criteria))]_vars

ByName(req) ==
    req.sortBy \notin {InstallCount, AverageRating, WeightedRating,
                       LastUpdatedDate, PublishedDate}
AscendingAsked(req) ==
    Has(req, "sortOrder") /\ req.sortOrder = Order_Ascending
KeysUp(exts, req) ==
    \A i, j \in 1..Len(exts) :
        i < j => ~TupleLess(KeyOf(exts[j], req), KeyOf(exts[i], req))
KeysDown(exts, req) ==
    \A i, j \in 1..Len(exts) :
        i < j => ~TupleLess(KeyOf(exts[i], req), KeyOf(exts[j], req))

\* C32: a sort by PublisherName, or by displayName (Title and the keys
\* _sort does not recognise), runs against the requested direction:
\* Ascending gives descending keys, Descending or Default ascending keys.
\* Every other key follows the request, Default meaning descending.
C32_NameSortsInverted ==
    [][(Answering /\ response'.status = 200 /\ ~NoSortBy(sorting))
       => /\ SameElements(Extensions(response'), result')
          /\ IF ByName(sorting) = AscendingAsked(sorting)
             THEN KeysDown(Extensions(response'), sorting)
             ELSE KeysUp(Extensions(response'), sorting)]_vars

\* publishers "a", "b", "a" asked in ascending order come back as b, a, a
C32_Witness ==
    /\ qpc = "idle"
    /\ sorting = [sortBy |-> PublisherName, sortOrder |-> Order_Ascending]
    /\ response.status = 200
    /\ Identities(result) = <<1, 2, 3>>
    /\ Identities(Extensions(response)) = <<2, 1, 3>>

\* display names "Ba", "a" (the key of a sortBy without a branch) asked
\* in the default direction come back ascending
C32_WitnessFallback ==
    /\ qpc = "idle"
    /\ sorting = [sortBy |-> 7]
    /\ response.status = 200
    /\ Len(result) >= 2
    /\ \E i \in 1..(Len(result) - 1) :
          TupleLess(KeyOf(Extensions(response)[i], sorting),
                    KeyOf(Extensions(response)[i + 1], sorting))

\* ------------------------------------------------------------------------
\* The loader over directories it cannot load, or can load in part
\* ------------------------------------------------------------------------
Collected(t, d) == pc[t] = "collect" /\ d \in done_dirs'[t] \ done_dirs[t]
Published(t) == pc[t] = "swap" /\ pc'[t] # "swap"

\* latest.json of directory d is missing or empty, has no identity, or
\* has a missing or empty versions list
NoUsableLatest(d) ==
    /\ tree[d].present
    /\ LET file == tree[d].content.latest
       IN  \/ ~file.exists
           \/ file.json = None
           \/ "identity" \notin DOMAIN file.json
           \/ "versions" \notin DOMAIN file.json
           \/ file.json.versions = <<>>

\* C33: when latest.json of an extension directory is missing or empty,
\* has no identity, or has a missing or empty versions list, the loader
\* returns no record, the rebuild goes on with the other directories, and
\* the snapshot it publishes has no record for that extension.
C33_NoLatestNoRecord ==
    [][\A t \in Threads :
          /\ \A d \in Dirs :
                (Collected(t, d) /\ NoUsableLatest(d))
                    => /\ LoadDir(d) = None
                       /\ d \notin DOMAIN new_extensions'[t]
                       /\ pc'[t] \in {"collect", "flush", "swap"}
          /\ (Published(t) /\ unchanged_since_scan[t])
                => \A d \in extension_dirs[t] :
                      IF NoUsableLatest(d)
                      THEN d \notin DOMAIN extensions'
                      ELSE LoadDir(d) # None
                             => /\ d \in DOMAIN extensions'
                                /\ extensions'[d] = LoadDir(d)]_vars

\* a rebuild over a good directory and one whose latest.json has no
\* identity has published the record of the good one alone
C33_Witness ==
    /\ pc["loop"] = "caching"
    /\ unchanged_since_scan["loop"]
    /\ extension_dirs["loop"] = Dirs
    /\ "identity" \notin DOMAIN tree[NumDirs].content.latest.json
    /\ DOMAIN extensions = Dirs \ {NumDirs}

\* latest.json went away after the scan: the directory was loaded, gave
\* no record, and the rebuild is at its next step
C33_WitnessMissing ==
    /\ pc["loop"] \in {"collect", "flush", "swap"}
    /\ NumDirs \in done_dirs["loop"]
    /\ ~tree[NumDirs].content.latest.exists
    /\ NumDirs \notin DOMAIN new_extensions["loop"]

\* how many entries of versions carry a version numerically equal to v
Occurrences(versions, v) ==
    Cardinality({i \in 1..Len(versions) :
                    VersionEq(versions[i].version, v)})

\* C34: a version directory whose version equals the latest version of
\* latest.json adds no entry: in every record the loader produces, the
\* latest version number occurs exactly once in the versions list.
C34_LatestVersionOnce ==
    [][\A t \in Threads : \A d \in Dirs :
          (Collected(t, d) /\ d \in DOMAIN new_extensions'[t])
              => LET latest == tree[d].content.latest.json.versions[1]
                 IN  Occurrences(new_extensions'[t][d].versions,
                                 latest.version) = 1]_vars

\* extension.json of a version directory is there and is empty, or has
\* no versions list, or an empty one
OddVersion(file) ==
    /\ file.exists
    /\ \/ file.json = None
       \/ "versions" \notin DOMAIN file.json
       \/ file.json.versions = <<>>
HasOddVersion(d) ==
    /\ tree[d].present
    /\ \E i \in 1..Len(tree[d].content.subdirs) :
          OddVersion(tree[d].content.subdirs[i].ext)
\* the record of directory d loaded without its odd version directories
WithoutOddVersions(d) ==
    process_single_extension(
        [tree[d].content EXCEPT
            !.subdirs = SelectSeq(@, LAMBDA sub : ~OddVersion(sub.ext))],
        d)

\* C35: a version directory whose extension.json is empty or malformed
\* (no versions list, or an empty one) is skipped: the extension is loaded
\* with its latest version and its other well-formed versions.
C35_OddVersionSkipped ==
    [][\A t \in Threads : \A d \in Dirs :
          (Collected(t, d) /\ rootOk /\ HasOddVersion(d)
              /\ WithoutOddVersions(d) # None)
              => /\ d \in DOMAIN new_extensions'[t]
                 /\ new_extensions'[t][d] = WithoutOddVersions(d)]_vars

\* ------------------------------------------------------------------------
\* Locks and the snapshot under queries
\* ------------------------------------------------------------------------
\* thread t is at or inside a call that reads or writes the disk: the
\* stat and read of the cache file, the listing of the tree, the wait for
\* the loaders, the write and the rename of the cache file
InIO(t) ==
    pc[t] \in {"load_cache", "scan", "collect", "save_open", "save_dump",
               "save_rename"}

\* the step thread u takes next needs a lock and can be taken now
\* (indexing_lock at processing and finish, extensions_lock at flush and
\* swap, both at caching)
LockStepFree(u) ==
    /\ pc[u] = "processing" => ENABLED ProgressProcessing(u)
    /\ pc[u] = "flush" => ENABLED Flush(u)
    /\ pc[u] = "swap" => ENABLED Swap(u)
    /\ pc[u] = "caching" => ENABLED ProgressCaching(u)
    /\ pc[u] = "finish" => ENABLED Finish(u)

QueryStep == qpc' # qpc \/ response' # response \/ result' # result

\* C37: handling a query (copy, filter, sort, response) leaves the
\* published snapshot as it is, the same keys mapped to the same records;
\* the sort reorders the result list of the query only: the response
\* carries the filtered extensions, whatever their order.
C37_QueryLeavesSnapshot ==
    [][QueryStep
          => /\ extensions' = extensions
             /\ Answering /\ response'.status = 200
                   => SameElements(Extensions(response'), result')]_vars

\* a search found the first extension before the second, the answer
\* lists the second first, and the snapshot is the one the rebuild
\* published
C37_Witness ==
    /\ qpc = "idle"
    /\ response.status = 200
    /\ Identities(result) = <<1, 2>>
    /\ Identities(Extensions(response)) = <<2, 1>>
    /\ DOMAIN extensions = Dirs
    /\ extensions = published

\* ------------------------------------------------------------------------
\* IndexingState, the cache hit, the end of a rebuild
\* ------------------------------------------------------------------------
\* C38: in every reachable state 0 <= current <= total of IndexingState;
\* when the stage becomes caching, current and total are the number of
\* eligible directories of the rebuild that sets it.
C38_ProgressWithinTotal ==
    /\ [](/\ 0 <= indexing_progress.current
          /\ indexing_progress.current <= indexing_progress.total)
    /\ [][\A t \in Threads :
             (pc[t] = "caching" /\ pc'[t] # "caching")
                => /\ indexing_progress'.stage = "caching"
                   /\ indexing_progress'.current
                         = Cardinality(extension_dirs[t])
                   /\ indexing_progress'.total
                         = Cardinality(extension_dirs[t])]_vars

\* C39: when update_state finds a fresh cache (newer than the tree, and
\* readable), it replaces the snapshot with the contents of the cache and
\* returns: the indexing signal, IndexingState and the cache file are
\* left as they are.
C39_CacheHitOnlySwapsSnapshot ==
    [][\A t \in Threads :
          (pc[t] = "load_cache" /\ pc'[t] # "load_cache"
           /\ StrictlyNewer /\ Readable(cache))
              => /\ extensions' = cache.data
                 /\ pc'[t] = "return"
                 /\ indexing' = indexing
                 /\ indexing_progress' = indexing_progress
                 /\ cache' = cache
                 /\ tmp' = tmp]_vars

\* the scheduler has returned from a hit on the cache an earlier run
\* left: the snapshot is loaded, nothing indexes, no file was written
C39_Witness ==
    /\ pc["loop"] = "return"
    /\ loadres["loop"] = "hit"
    /\ pc["watch"] = "idle"
    /\ extensions = cache.data
    /\ extensions # <<>>
    /\ ~indexing
    /\ indexing_progress = Idle
    /\ ~tmp.exists

\* C40: every rebuild that sets the indexing signal eventually clears it:
\* a state with indexing set is always followed by a state with indexing
\* clear and the stage idle.
C40_IndexingEventuallyCleared ==
    indexing ~> (~indexing /\ indexing_progress.stage = "idle")

====
